---- MODULE Spec2Model ----
(***************************************************************************)
(* Model of streamlit_app.py: the payload builder of the network-analysis  *)
(* dashboard.  A dataset (the CSV file) is a set of present columns and a  *)
(* sequence of rows of text cells; build_payload turns it into the nested  *)
(* payload; main() serves the payload through the st.cache_data store.     *)
(*                                                                         *)
(* Conventions.  An optional value is a sequence of length 0 or 1 (<<>> is *)
(* None / NaN / NaT / "no entry").  Numbers of the signal_strength column  *)
(* are kept in tenths (1.5 is 15).  A pandas Series is a sequence, a       *)
(* DataFrame produced by crosstab is a record (index, columns, data).      *)
(* A Python dict is a function; the order of its keys is not modelled,     *)
(* the lists of the matrices are sequences and keep their order.           *)
(***************************************************************************)
EXTENDS Integers, Sequences, FiniteSets, TLC

VARIABLES
    csv,          \* the file at CSV_PATH: <<>> (no such file) or <<dataset>>
    geofile,      \* the file at GEOJSON_PATH: "ok", "missing" or "corrupt"
    cache,        \* the st.cache_data store of build_payload: <<>> or <<payload>>
    builds,       \* how many times the body of build_payload ran to completion
    last,         \* how the last call of main() went: "none" (no call yet),
                  \* "built", "cached" or "failed"
    html,         \* the payload injected by the last main(): <<>> or <<payload>>
    sig,          \* local `sig` of the last build (line 130), <<>> when not computed
    status_norm   \* local df_tmp["_status_norm_"] of the last build (line 110)

vars == <<csv, geofile, cache, builds, last, html, sig, status_norm>>

-----------------------------------------------------------------------------
(* Bounds *)

MaxRows == 3
MaxBuilds == 2

-----------------------------------------------------------------------------
(* Configuration constants of the program *)

SIGNAL_COL == "signal_strength"
DATE_COL == "reported_date"

MONTH_ORDER ==
    << "January", "February", "March", "April", "May", "June",
       "July", "August", "September", "October", "November", "December" >>

NaN == "NaN"

Range(s) == {s[i] : i \in DOMAIN s}

RECURSIVE SumSeq(_)
SumSeq(s) == IF s = <<>> THEN 0 ELSE Head(s) + SumSeq(Tail(s))

-----------------------------------------------------------------------------
(* Text: the ordering of Python strings, str.strip and str.title, given    *)
(* as tables over the strings that occur in the model.                     *)

LexOrder ==
    << " Pending", "Closed", "Coverage", "In Progress", "Johor", "Kedah",
       "Moderate", "No Signal", "Open", "Other", "Pending", "Resolved ",
       "Selangor",
       "Speed", "Strong", "Weak" >>

Rank(label) == CHOOSE i \in DOMAIN LexOrder : LexOrder[i] = label

RECURSIVE sorted(_)
sorted(S) ==
    IF S = {} THEN <<>>
    ELSE LET m == CHOOSE x \in S : \A y \in S : Rank(x) <= Rank(y)
         IN  <<m>> \o sorted(S \ {m})

str_strip(x) ==
    CASE x = "Resolved "  -> "Resolved"
      [] x = " Pending"   -> "Pending"
      [] OTHER            -> x

str_title(x) ==
    CASE x = "nan" -> "Nan"
      [] OTHER     -> x

-----------------------------------------------------------------------------
(* pandas primitives *)

\* pd.read_csv: an empty cell is NaN, any other cell keeps its text
read_cell(tok) == IF tok = "" THEN NaN ELSE tok

Column(df, c) == [i \in 1..Len(df.rows) |-> read_cell(df.rows[i][c])]

\* pd.to_numeric(errors="coerce") on one cell: <<tenths>> or <<>> (NaN)
to_numeric(x) ==
    CASE x = "-1"  -> <<-10>>
      [] x = "0"   -> <<0>>
      [] x = "0.5" -> <<5>>
      [] x = "1.5" -> <<15>>
      [] x = "2"   -> <<20>>
      [] x = "2.5" -> <<25>>
      [] x = "3"   -> <<30>>
      [] x = "3.5" -> <<35>>
      [] x = "4"   -> <<40>>
      [] x = "5"   -> <<50>>
      [] OTHER     -> <<>>

fillna(x, d) == IF x = <<>> THEN d ELSE x[1]

\* pd.to_datetime(errors="coerce") followed by .dt.month: <<month>> or <<>> (NaT)
to_datetime_month(x) ==
    CASE x = "2024-01-15" -> <<1>>
      [] x = "2024-02-29" -> <<2>>
      [] x = "2024-12-03" -> <<12>>
      [] OTHER            -> <<>>

\* month_name that indexes the month list from 0
month_name_off_by_one(d) == IF d = <<>> THEN NaN ELSE MONTH_ORDER[(d[1] % 12) + 1]

\* .dt.month_name() on one element: the month's name, NaN for NaT
month_name(d) == IF d = <<>> THEN NaN ELSE MONTH_ORDER[d[1]]

\* Series.astype(str) on one element
astype_str(x) == IF x = NaN THEN "nan" ELSE x

\* Series.value_counts(dropna=...).to_dict()
value_counts(s, dropna) ==
    LET keys == {s[i] : i \in DOMAIN s} \ (IF dropna THEN {NaN} ELSE {})
    IN  [k \in keys |-> Cardinality({i \in DOMAIN s : s[i] = k})]

\* dict.get(key, 0)
dict_get(d, key) == IF key \in DOMAIN d THEN d[key] ELSE 0

\* Series.nunique()
nunique(s) == Cardinality(Range(s) \ {NaN})

\* pd.crosstab(index, columns): rows with NaN in either series are dropped,
\* both label lists come out sorted, absent combinations count 0
crosstab(index, columns) ==
    LET keep == {i \in DOMAIN index : index[i] # NaN /\ columns[i] # NaN}
        rows == {index[i] : i \in keep}
        cols == {columns[i] : i \in keep}
    IN  [index   |-> sorted(rows),
         columns |-> sorted(cols),
         data    |-> [c \in cols |-> [r \in rows |->
                        Cardinality({i \in keep : index[i] = r /\ columns[i] = c})]]]

\* ct[name] = values  (values: row label -> number)
set_column(ct, name, values) ==
    [index   |-> ct.index,
     columns |-> IF name \in Range(ct.columns) THEN ct.columns
                 ELSE Append(ct.columns, name),
     data    |-> [c \in Range(ct.columns) \cup {name} |->
                    IF c = name THEN values ELSE ct.data[c]]]

\* ct[order]
select_columns(ct, order) ==
    [index   |-> ct.index,
     columns |-> order,
     data    |-> [c \in Range(order) |-> ct.data[c]]]

\* ct.drop(columns=[name])
drop_column(ct, name) ==
    [index   |-> ct.index,
     columns |-> SelectSeq(ct.columns, LAMBDA c : c # name),
     data    |-> [c \in Range(ct.columns) \ {name} |-> ct.data[c]]]

\* ct.sum(axis=1)
sum_axis1(ct) ==
    [r \in Range(ct.index) |->
        SumSeq([j \in 1..Len(ct.columns) |-> ct.data[ct.columns[j]][r]])]

Zeros(ct) == [r \in Range(ct.index) |-> 0]

Perms(s) ==
    {p \in [1..Len(s) -> Range(s)] : \A i, j \in 1..Len(s) : i # j => p[i] # p[j]}

\* sort_values with ascending=True
sort_values_asc(ct, by) ==
    {[index |-> p, columns |-> ct.columns, data |-> ct.data] :
        p \in {q \in Perms(ct.index) :
                 \A i, j \in 1..Len(q) :
                    i < j => ct.data[by][q[i]] <= ct.data[by][q[j]]}}

\* ct.sort_values(by, ascending=False) with the default kind="quicksort":
\* the rows come out by non-increasing value of column `by`; the sort is not
\* a stable one, so rows with equal values may come out in any order
sort_values_desc(ct, by) ==
    {[index |-> p, columns |-> ct.columns, data |-> ct.data] :
        p \in {q \in Perms(ct.index) :
                 \A i, j \in 1..Len(q) :
                    i < j => ct.data[by][q[i]] >= ct.data[by][q[j]]}}

\* {col: ct[col].astype(int).tolist() for col in ct.columns}
matrix_of(ct) ==
    [c \in Range(ct.columns) |->
        [i \in 1..Len(ct.index) |-> ct.data[c][ct.index[i]]]]

\* ct["__total__"] = ct.sum(axis=1);
\* ct = ct.sort_values("__total__", ascending=False).drop(columns=["__total__"])
sorted_by_total(ct) ==
    {drop_column(s, "__total__") :
        s \in sort_values_desc(set_column(ct, "__total__", sum_axis1(ct)),
                               "__total__")}

-----------------------------------------------------------------------------
(* HELPERS of streamlit_app.py *)

derive_reported_month_series(df) ==
    IF DATE_COL \notin df.cols THEN <<>>
    ELSE LET d == Column(df, DATE_COL)
         IN  [i \in DOMAIN d |-> month_name(to_datetime_month(d[i]))]

\* _label with the upper thresholds taken as exclusive
_label_exclusive(v) ==
    IF v <= 0 THEN "No Signal"
    ELSE IF v < 20 THEN "Weak"
    ELSE IF v < 30 THEN "Moderate"
    ELSE "Strong"

\* v is in tenths
_label(v) ==
    IF v <= 0 THEN "No Signal"
    ELSE IF v <= 20 THEN "Weak"
    ELSE IF v <= 30 THEN "Moderate"
    ELSE "Strong"

bucket_signal_strength(s) ==
    LET x == [i \in DOMAIN s |-> fillna(to_numeric(s[i]), 0)]
    IN  [i \in DOMAIN x |-> _label(x[i])]

\* norm_status without the strip()
norm_status_unstripped(x) ==
    IF x = NaN THEN "Other"
    ELSE IF x = "Submitted" THEN "Open"
    ELSE IF x = "In Progress" THEN "In Progress"
    ELSE IF x = "Resolved" THEN "Closed"
    ELSE x

\* norm_status that leaves a missing status missing
norm_status_keeps_nan(x) ==
    IF x = NaN THEN NaN
    ELSE LET y == str_strip(x)
         IN  IF y = "Submitted" THEN "Open"
             ELSE IF y = "In Progress" THEN "In Progress"
             ELSE IF y = "Resolved" THEN "Closed"
             ELSE y


norm_status(x) ==
    IF x = NaN THEN "Other"
    ELSE LET y == str_strip(x)
         IN  IF y = "Submitted" THEN "Open"
             ELSE IF y = "In Progress" THEN "In Progress"
             ELSE IF y = "Resolved" THEN "Closed"
             ELSE y

-----------------------------------------------------------------------------
(* build_payload, view by view.  Each *_of operator yields the set of      *)
(* values the view can take (one per admissible order of tied rows).       *)

summary_of(df) ==
    LET status_counts_raw ==
            IF "status" \in df.cols
            THEN value_counts(Column(df, "status"), FALSE) ELSE <<>>
    IN  [total_complaints  |-> Len(df.rows),
         total_states      |-> IF "state" \in df.cols
                               THEN nunique(Column(df, "state")) ELSE 0,
         total_districts   |-> IF "district" \in df.cols
                               THEN nunique(Column(df, "district")) ELSE 0,
         total_submitted   |-> dict_get(status_counts_raw, "Submitted"),
         total_in_progress |-> dict_get(status_counts_raw, "In Progress"),
         total_resolved    |-> dict_get(status_counts_raw, "Resolved")]

simple_counts(df, c) ==
    IF c \in df.cols THEN value_counts(Column(df, c), TRUE) ELSE <<>>

empty_issue_matrix == [states |-> <<>>, issue_types |-> <<>>, matrix |-> <<>>]

issue_matrix_of(df) ==
    IF {"state", "issue_type"} \subseteq df.cols
    THEN {[states      |-> ct.index,
           issue_types |-> ct.columns,
           matrix      |-> matrix_of(ct)] :
            ct \in sorted_by_total(
                     crosstab(Column(df, "state"), Column(df, "issue_type")))}
    ELSE {empty_issue_matrix}

status_order == <<"Open", "In Progress", "Closed">>

\* for s in status_order: if s not in ct.columns: ct[s] = 0
RECURSIVE add_missing_columns(_, _)
add_missing_columns(ct, order) ==
    IF order = <<>> THEN ct
    ELSE add_missing_columns(
            IF Head(order) \in Range(ct.columns) THEN ct
            ELSE set_column(ct, Head(order), Zeros(ct)),
            Tail(order))

\* status_columns without the selection ct[status_order]
status_columns_unselected(ct) == add_missing_columns(ct, status_order)

\* ct = ct[status_order] after the missing columns were added
status_columns(ct) == select_columns(add_missing_columns(ct, status_order), status_order)

status_norm_of(df) ==
    LET s == Column(df, "status") IN [i \in DOMAIN s |-> norm_status(s[i])]

empty_status_matrix == [states |-> <<>>, statuses |-> <<>>, matrix |-> <<>>]

status_matrix_of(df) ==
    IF {"state", "status"} \subseteq df.cols
    THEN {[states   |-> ct.index,
           statuses |-> ct.columns,
           matrix   |-> matrix_of(ct)] :
            ct \in sorted_by_total(
                     status_columns(
                       crosstab(Column(df, "state"), status_norm_of(df))))}
    ELSE {empty_status_matrix}

preferred_order == <<"Strong", "Moderate", "Weak", "No Signal">>

\* signal_order that keeps the order crosstab gave to the columns
signal_order_as_found(ct) == ct.columns


signal_order(ct) ==
    LET existing  == SelectSeq(preferred_order, LAMBDA x : x \in Range(ct.columns))
        remaining == SelectSeq(ct.columns, LAMBDA x : x \notin Range(existing))
    IN  existing \o sorted(Range(remaining))

signal_error == "Required columns 'state' and 'signal_strength' not found in dataset."

empty_signal_matrix_without_error ==
    [states |-> <<>>, signal_strengths |-> <<>>, matrix |-> <<>>]

empty_signal_matrix ==
    [states |-> <<>>, signal_strengths |-> <<>>, matrix |-> <<>>,
     error |-> signal_error]

signal_matrix_of(df) ==
    IF {"state", SIGNAL_COL} \subseteq df.cols
    THEN LET ct0 == crosstab(Column(df, "state"),
                             bucket_signal_strength(Column(df, SIGNAL_COL)))
         IN  {[states           |-> ct.index,
               signal_strengths |-> ct.columns,
               matrix           |-> matrix_of(ct)] :
                ct \in sorted_by_total(select_columns(ct0, signal_order(ct0)))}
    ELSE {empty_signal_matrix}

reported_of(df) ==
    LET months == derive_reported_month_series(df)
    IN  IF months = <<>>
        THEN [m \in Range(MONTH_ORDER) |-> 0]
        ELSE LET counts == value_counts(
                     [i \in DOMAIN months |->
                         str_title(str_strip(astype_str(months[i])))], TRUE)
             IN  [m \in Range(MONTH_ORDER) |-> dict_get(counts, m)]

GeoDocument == "FeatureCollection"
None == "null"

\* load_geojson that only guards against a missing file
load_geojson_unguarded_parse(file) == IF file = "missing" THEN None ELSE GeoDocument

\* try: json.load(open(GEOJSON_PATH)) except Exception: None
load_geojson(file) == IF file = "ok" THEN GeoDocument ELSE None

build_payload(df, file) ==
    {[summary       |-> summary_of(df),
      state         |-> simple_counts(df, "state"),
      district      |-> simple_counts(df, "district"),
      issue         |-> simple_counts(df, "issue_type"),
      signal_matrix |-> gm,
      issue_matrix  |-> im,
      status_matrix |-> sm,
      reported      |-> reported_of(df),
      geojson       |-> load_geojson(file)] :
        gm \in signal_matrix_of(df),
        im \in issue_matrix_of(df),
        sm \in status_matrix_of(df)}

-----------------------------------------------------------------------------
(* The input files.  A dataset has a set of columns and at most MaxRows    *)
(* rows; its cells are CSV text.  The datasets are taken from families,    *)
(* each giving the columns present and the cell texts of each column.      *)

Columns == {"state", "district", "issue_type", "status", SIGNAL_COL, DATE_COL}

StateCells    == {"", "Johor", "Selangor"}
IssueCells    == {"", "Coverage", "Speed"}
StatusCells   == {"", "Submitted", "In Progress", "Resolved ", "Pending"}
SignalCells   == {"", "abc", "-1", "0", "1.5", "2", "2.5", "3", "3.5"}
DateCells     == {"", "not a date", "2024-01-15", "2024-02-29", "2024-12-03"}
DistrictCells == {"", "Kulai"}

Families ==
    { [state |-> StateCells, issue_type |-> IssueCells],
      [state |-> StateCells, status |-> StatusCells],
      [state |-> StateCells, signal_strength |-> {"", "0", "3", "3.5"}],
      [state |-> {"Johor"}, signal_strength |-> SignalCells],
      [district |-> DistrictCells, reported_date |-> DateCells] }

RowsOf(fam) ==
    {r \in [DOMAIN fam -> UNION {fam[c] : c \in DOMAIN fam}] :
        \A c \in DOMAIN fam : r[c] \in fam[c]}

Row(st, di, it, sta, sg, dt) ==
    [state |-> st, district |-> di, issue_type |-> it, status |-> sta,
     signal_strength |-> sg, reported_date |-> dt]

\* rows with every column, among them the three rows of the documented scenario
FullRows ==
    { Row("Selangor", "Petaling", "Coverage", "Submitted",   "0",   "2024-01-15"),
      Row("Selangor", "Petaling", "Speed",    "Resolved",    "4",   "2024-02-29"),
      Row("Johor",    "Kulai",    "Coverage", "In Progress", "2",   "2024-12-03"),
      Row("Kedah",    "",         "",         " Pending",    "abc", "not a date"),
      Row("Kedah",    "Kulai",    "Speed",    "",            "",    ""),
      Row("",         "Kulai",    "Coverage", "Submitted",   "5",   "2024-01-15") }

Dataset(columns, rs) == [cols |-> columns, rows |-> rs]

\* the file at CSV_PATH holds a dataset of one of the families, or rows with
\* every column
IsDatasetFile(file) ==
    \/ \E fam \in Families : \E k \in 0..MaxRows : \E rs \in [1..k -> RowsOf(fam)] :
          file = <<Dataset(DOMAIN fam, rs)>>
    \/ \E k \in 0..MaxRows : \E rs \in [1..k -> FullRows] :
          file = <<Dataset(Columns, rs)>>

GeoFiles == {"ok", "missing", "corrupt"}

-----------------------------------------------------------------------------
(* The running process *)

Init ==
    /\ \/ csv = <<>>
       \/ IsDatasetFile(csv)
    /\ geofile \in GeoFiles
    /\ cache = <<>>
    /\ builds = 0
    /\ last = "none"
    /\ html = <<>>
    /\ sig = <<>>
    /\ status_norm = <<>>

\* a store that never answers
cached_value_never(store) == <<>>

\* st.cache_data: the stored return value of build_payload, if any
cached_value(store) == store

\* main(): build_payload() is answered from the st.cache_data store
MainCached ==
    /\ cached_value(cache) # <<>>
    /\ html' = cached_value(cache)
    /\ last' = "cached"
    /\ UNCHANGED <<csv, geofile, cache, builds, sig, status_norm>>

\* main(): the store has no entry, the body of build_payload runs and its
\* return value is stored and injected into the page
MainBuild ==
    /\ cached_value(cache) = <<>>
    /\ csv # <<>>
    /\ builds < MaxBuilds
    /\ LET df == csv[1] IN
        /\ \E payload \in build_payload(df, geofile) :
              /\ cache' = <<payload>>
              /\ html' = <<payload>>
        /\ sig' = IF {"state", SIGNAL_COL} \subseteq df.cols
                  THEN bucket_signal_strength(Column(df, SIGNAL_COL)) ELSE <<>>
        /\ status_norm' = IF {"state", "status"} \subseteq df.cols
                          THEN status_norm_of(df) ELSE <<>>
    /\ builds' = builds + 1
    /\ last' = "built"
    /\ UNCHANGED <<csv, geofile>>

\* main(): pd.read_csv raises (no dataset file); nothing is stored or rendered
MainFail ==
    /\ cached_value(cache) = <<>>
    /\ csv = <<>>
    /\ last' = "failed"
    /\ html' = <<>>
    /\ UNCHANGED <<csv, geofile, cache, builds, sig, status_norm>>

Next == MainCached \/ MainBuild \/ MainFail

Spec == Init /\ [][Next]_vars

-----------------------------------------------------------------------------
(* Vocabulary of the properties: the dataset that was read, the payload    *)
(* that was built, and counts taken directly from the rows of the dataset. *)

Built == cache # <<>>
DF == csv[1]
P == cache[1]

HasIssue  == {"state", "issue_type"} \subseteq DF.cols
HasStatus == {"state", "status"} \subseteq DF.cols
HasSignal == {"state", SIGNAL_COL} \subseteq DF.cols

RowIds == 1..Len(DF.rows)
Cell(i, c) == DF.rows[i][c]
NonNull(i, c) == Cell(i, c) # ""

\* the sum of all counts of a matrix whose column labels are `labels`
MatrixSum(m, labels) ==
    SumSeq([j \in 1..Len(labels) |-> SumSeq(m.matrix[labels[j]])])

\* the total of row i of a matrix over its emitted columns
RowTotal(m, labels, i) ==
    SumSeq([j \in 1..Len(labels) |-> m.matrix[labels[j]][i]])

RowsWithBoth(c) == {i \in RowIds : NonNull(i, "state") /\ NonNull(i, c)}

StatesIn(ids) == {Cell(i, "state") : i \in ids}

KnownStatus(i) == str_strip(Cell(i, "status")) \in {"Submitted", "In Progress", "Resolved"}

AllZero(s) == \A k \in DOMAIN s : s[k] = 0

IsSubsequenceOf(s, t) ==
    /\ Range(s) \subseteq Range(t)
    /\ \A i, j \in DOMAIN s :
          i < j => (CHOOSE a \in DOMAIN t : t[a] = s[i]) < (CHOOSE b \in DOMAIN t : t[b] = s[j])

-----------------------------------------------------------------------------
\* the number (in tenths) a cell of the signal_strength column stands for,
\* 0 for a missing or non-numeric cell
Tenths(tok) ==
    CASE tok \in {"", "abc"} -> 0
      [] tok = "-1"  -> -10
      [] tok = "0"   -> 0
      [] tok = "1.5" -> 15
      [] tok = "2"   -> 20
      [] tok = "2.5" -> 25
      [] tok = "3"   -> 30
      [] tok = "3.5" -> 35
      [] tok = "4"   -> 40
      [] tok = "5"   -> 50

(* C1: every value of the signal_strength column gets exactly one label,   *)
(* by the first matching threshold after missing and non-numeric values    *)
(* are coerced to 0: v <= 0 No Signal, 0 < v <= 2 Weak, 2 < v <= 3         *)
(* Moderate, v > 3 Strong; in particular 0 -> No Signal, 1.5 -> Weak,      *)
(* 2 -> Weak, 3 -> Moderate, 3.5 -> Strong, 'abc' and missing -> No Signal *)

C1_Bucketizer ==
    (Built /\ HasSignal) =>
        /\ Len(sig) = Len(DF.rows)
        /\ \A i \in RowIds :
             LET tok == Cell(i, SIGNAL_COL)
                 v   == Tenths(tok)
             IN  /\ sig[i] \in Range(preferred_order)
                 /\ (v <= 0) <=> (sig[i] = "No Signal")
                 /\ (0 < v /\ v <= 20) <=> (sig[i] = "Weak")
                 /\ (20 < v /\ v <= 30) <=> (sig[i] = "Moderate")
                 /\ (v > 30) <=> (sig[i] = "Strong")
                 /\ tok \in {"0", "abc", ""} => sig[i] = "No Signal"
                 /\ tok \in {"1.5", "2"} => sig[i] = "Weak"
                 /\ tok = "3" => sig[i] = "Moderate"
                 /\ tok = "3.5" => sig[i] = "Strong"

C1_Witness ==
    /\ Built /\ HasSignal
    /\ \E i, j, k \in RowIds :
          /\ Cell(i, SIGNAL_COL) = "abc" /\ sig[i] = "No Signal"
          /\ Cell(j, SIGNAL_COL) = "2"   /\ sig[j] = "Weak"
          /\ Cell(k, SIGNAL_COL) = "3.5" /\ sig[k] = "Strong"

-----------------------------------------------------------------------------
(* C2, as claimed: in each of the three cross-tabulations that is built,   *)
(* the sum of all counts of 'matrix' is the number of rows with non-null   *)
(* values in both grouping columns (state and issue_type, status or        *)
(* signal_strength).                                                       *)

-----------------------------------------------------------------------------
(* C3, as claimed: with state and signal_strength present, the first four  *)
(* entries of 'signal_strengths' are Strong, Moderate, Weak, No Signal,    *)
(* a label that never occurs having an all-zero count list.                *)

-----------------------------------------------------------------------------
(* C4: with state and status present, 'statuses' is exactly Open,          *)
(* In Progress, Closed in that order: a label that never occurs has an     *)
(* all-zero count list, and no other label (an unrecognized status, or     *)
(* Other for a missing one) is a column.                                   *)

C4_StatusColumnsFixed ==
    (Built /\ HasStatus) =>
        LET m == P.status_matrix IN
        /\ m.statuses = <<"Open", "In Progress", "Closed">>
        /\ DOMAIN m.matrix = {"Open", "In Progress", "Closed"}
        /\ \A c \in DOMAIN m.matrix :
              /\ Len(m.matrix[c]) = Len(m.states)
              /\ (\A i \in RowIds : NonNull(i, "state") => status_norm[i] # c)
                    => AllZero(m.matrix[c])

C4_Witness ==
    /\ Built /\ HasStatus
    /\ \E i, j \in RowIds :
          /\ NonNull(i, "state") /\ status_norm[i] = "Pending"
          /\ NonNull(j, "state") /\ status_norm[j] = "Other"
    /\ \A i \in RowIds : status_norm[i] # "Closed"
    /\ P.status_matrix.statuses = <<"Open", "In Progress", "Closed">>
    /\ Len(P.status_matrix.states) > 0

-----------------------------------------------------------------------------
(* C5, as claimed: in each matrix that is built, the set of 'states' is    *)
(* exactly the set of distinct state values of the data.                   *)

C5_RowsAreAllStates ==
    Built =>
        LET all == StatesIn({i \in RowIds : NonNull(i, "state")}) IN
        /\ HasIssue  => Range(P.issue_matrix.states) = all
        /\ HasStatus => Range(P.status_matrix.states) = all
        /\ HasSignal => Range(P.signal_matrix.states) = all

(* C5, amended: the 'states' of the status_matrix and of the signal_matrix *)
(* are exactly the distinct state values of the data; the 'states' of the  *)
(* issue_matrix are the distinct state values of the rows whose issue_type *)
(* is not missing.  No list repeats a state.                               *)

C5_RowsAmended ==
    Built =>
        LET all == StatesIn({i \in RowIds : NonNull(i, "state")}) IN
        /\ HasIssue =>
              /\ Range(P.issue_matrix.states) = StatesIn(RowsWithBoth("issue_type"))
              /\ Len(P.issue_matrix.states) = Cardinality(Range(P.issue_matrix.states))
        /\ HasStatus =>
              /\ Range(P.status_matrix.states) = all
              /\ Len(P.status_matrix.states) = Cardinality(all)
        /\ HasSignal =>
              /\ Range(P.signal_matrix.states) = all
              /\ Len(P.signal_matrix.states) = Cardinality(all)

C5_Witness ==
    /\ Built /\ HasIssue /\ HasStatus
    /\ \E i \in RowIds :
          /\ NonNull(i, "state") /\ ~NonNull(i, "issue_type")
          /\ Cell(i, "state") \notin Range(P.issue_matrix.states)
          /\ Cell(i, "state") \in Range(P.status_matrix.states)
    /\ Len(P.issue_matrix.states) > 0

-----------------------------------------------------------------------------
\* the month a cell of the reported_date column falls in
MonthOfCell(tok) ==
    CASE tok = "2024-01-15" -> "January"
      [] tok = "2024-02-29" -> "February"
      [] tok = "2024-12-03" -> "December"
      [] OTHER              -> "unparseable"

(* C6: 'reported' has exactly the twelve month names as keys; each value   *)
(* is the number of rows whose reported_date parses to a date of that      *)
(* month; the values sum to the number of rows with a parseable date; rows *)
(* with a missing or unparseable date count under no month; without the    *)
(* reported_date column all twelve counts are 0.                           *)

C6_Reported ==
    Built =>
        /\ DOMAIN P.reported = Range(MONTH_ORDER)
        /\ Cardinality(DOMAIN P.reported) = 12
        /\ DATE_COL \notin DF.cols => \A m \in DOMAIN P.reported : P.reported[m] = 0
        /\ DATE_COL \in DF.cols =>
              /\ \A m \in DOMAIN P.reported :
                    P.reported[m]
                       = Cardinality({i \in RowIds : MonthOfCell(Cell(i, DATE_COL)) = m})
              /\ SumSeq([k \in 1..12 |-> P.reported[MONTH_ORDER[k]]])
                    = Cardinality({i \in RowIds :
                                      MonthOfCell(Cell(i, DATE_COL)) # "unparseable"})

C6_Witness ==
    /\ Built /\ DATE_COL \in DF.cols
    /\ \E i, j, k \in RowIds :
          /\ Cell(i, DATE_COL) = ""
          /\ Cell(j, DATE_COL) = "not a date"
          /\ Cell(k, DATE_COL) = "2024-12-03"
    /\ P.reported["December"] = 1
    /\ P.reported["January"] = 0

-----------------------------------------------------------------------------
(* C7: when the state column or the target column of a cross-tabulation is *)
(* absent, build_payload still completes and emits that matrix with empty  *)
(* 'states', empty column labels and an empty 'matrix', the signal_matrix  *)
(* also carrying an 'error' message; the other views are still computed    *)
(* from the columns that are present.                                      *)

C7_MissingColumns ==
    /\ (csv # <<>> /\ last # "none") => Built
    /\ Built =>
        /\ ~HasIssue =>
              /\ P.issue_matrix.states = <<>>
              /\ P.issue_matrix.issue_types = <<>>
              /\ DOMAIN P.issue_matrix.matrix = {}
        /\ ~HasStatus =>
              /\ P.status_matrix.states = <<>>
              /\ P.status_matrix.statuses = <<>>
              /\ DOMAIN P.status_matrix.matrix = {}
        /\ ~HasSignal =>
              /\ P.signal_matrix.states = <<>>
              /\ P.signal_matrix.signal_strengths = <<>>
              /\ DOMAIN P.signal_matrix.matrix = {}
              /\ "error" \in DOMAIN P.signal_matrix
              /\ P.signal_matrix.error = signal_error
        /\ HasSignal => "error" \notin DOMAIN P.signal_matrix
        /\ HasStatus => Len(P.status_matrix.statuses) = 3
        /\ HasIssue =>
              Range(P.issue_matrix.issue_types)
                 = {Cell(i, "issue_type") : i \in RowsWithBoth("issue_type")}
        /\ P.summary.total_complaints = Len(DF.rows)
        /\ "state" \in DF.cols =>
              DOMAIN P.state = StatesIn({i \in RowIds : NonNull(i, "state")})
        /\ DOMAIN P.reported = Range(MONTH_ORDER)

C7_Witness ==
    /\ Built /\ HasStatus /\ ~HasIssue /\ ~HasSignal
    /\ P.issue_matrix = empty_issue_matrix
    /\ "error" \in DOMAIN P.signal_matrix
    /\ Len(P.status_matrix.states) = 2
    /\ P.summary.total_complaints = 3

-----------------------------------------------------------------------------
\* the top-level fields of a payload other than geojson
OtherFields(p) ==
    <<p.summary, p.state, p.district, p.issue, p.signal_matrix,
      p.issue_matrix, p.status_matrix, p.reported>>

(* C8: if reading or parsing the boundary file fails (missing, unreadable, *)
(* not valid JSON), build_payload does not fail: 'geojson' is null and     *)
(* every other top-level field has the value it would have had if the      *)
(* boundary file had loaded.                                               *)

C8_GeojsonBestEffort ==
    /\ (csv # <<>> /\ last # "none") => Built
    /\ Built =>
        /\ geofile # "ok" =>
              /\ P.geojson = None
              /\ \E q \in build_payload(DF, "ok") :
                    /\ q.geojson = GeoDocument
                    /\ OtherFields(q) = OtherFields(P)
        /\ geofile = "ok" => P.geojson = GeoDocument

C8_Witness ==
    /\ Built /\ geofile = "corrupt"
    /\ P.geojson = None
    /\ P.summary.total_complaints = 3
    /\ Len(P.issue_matrix.states) = 2

-----------------------------------------------------------------------------
(* The order of the rows of a matrix: the count the data gives for a state *)
(* and a column label, and the orderings of the row list.                  *)

IssueCount(s, c) ==
    Cardinality({k \in RowIds : Cell(k, "state") = s /\ Cell(k, "issue_type") = c})
StatusCount(s, c) ==
    Cardinality({k \in RowIds : Cell(k, "state") = s /\ status_norm[k] = c})
SignalCount(s, c) ==
    Cardinality({k \in RowIds : Cell(k, "state") = s /\ sig[k] = c})

NonIncreasing(m, labels) ==
    \A i, j \in 1..Len(m.states) :
        i < j => RowTotal(m, labels, i) >= RowTotal(m, labels, j)

\* states with equal totals are in the order of the table before the sort,
\* which is the sorted order of the labels given by crosstab
TiesKeepOrder(m, labels) ==
    \A i, j \in 1..Len(m.states) :
        (i < j /\ RowTotal(m, labels, i) = RowTotal(m, labels, j))
            => Rank(m.states[i]) < Rank(m.states[j])

Aligned(m, labels, Count(_, _)) ==
    \A c \in Range(labels) :
        /\ Len(m.matrix[c]) = Len(m.states)
        /\ \A i \in 1..Len(m.states) : m.matrix[c][i] = Count(m.states[i], c)

(* C9, as claimed: in each matrix 'states' is ordered by non-increasing    *)
(* total over the emitted columns, states with equal totals keep the       *)
(* relative order they had before the sort, and every count list is        *)
(* reordered alike, position i belonging to states[i].                     *)

C9_SortedStable ==
    Built =>
        /\ HasIssue =>
              /\ NonIncreasing(P.issue_matrix, P.issue_matrix.issue_types)
              /\ TiesKeepOrder(P.issue_matrix, P.issue_matrix.issue_types)
              /\ Aligned(P.issue_matrix, P.issue_matrix.issue_types, IssueCount)
        /\ HasStatus =>
              /\ NonIncreasing(P.status_matrix, P.status_matrix.statuses)
              /\ TiesKeepOrder(P.status_matrix, P.status_matrix.statuses)
              /\ Aligned(P.status_matrix, P.status_matrix.statuses, StatusCount)
        /\ HasSignal =>
              /\ NonIncreasing(P.signal_matrix, P.signal_matrix.signal_strengths)
              /\ TiesKeepOrder(P.signal_matrix, P.signal_matrix.signal_strengths)
              /\ Aligned(P.signal_matrix, P.signal_matrix.signal_strengths, SignalCount)

(* C9, amended: in each matrix 'states' is ordered by non-increasing total *)
(* over the emitted columns and every count list is reordered alike,       *)
(* position i belonging to states[i]; the relative order of states with    *)
(* equal totals is not determined (the sort is not a stable one).          *)

C9_SortedAligned ==
    Built =>
        /\ HasIssue =>
              /\ NonIncreasing(P.issue_matrix, P.issue_matrix.issue_types)
              /\ Aligned(P.issue_matrix, P.issue_matrix.issue_types, IssueCount)
        /\ HasStatus =>
              /\ NonIncreasing(P.status_matrix, P.status_matrix.statuses)
              /\ Aligned(P.status_matrix, P.status_matrix.statuses, StatusCount)
        /\ HasSignal =>
              /\ NonIncreasing(P.signal_matrix, P.signal_matrix.signal_strengths)
              /\ Aligned(P.signal_matrix, P.signal_matrix.signal_strengths, SignalCount)

\* the later label comes first because its total is larger
C9_Witness ==
    /\ Built /\ HasIssue
    /\ P.issue_matrix.states = <<"Selangor", "Johor">>
    /\ RowTotal(P.issue_matrix, P.issue_matrix.issue_types, 1) = 2
    /\ RowTotal(P.issue_matrix, P.issue_matrix.issue_types, 2) = 1

-----------------------------------------------------------------------------
(* C10: within one process, over any sequence of calls of main(), the      *)
(* payload is computed at most once, by the first successful call; every   *)
(* later call receives that stored payload, the build does not run again   *)
(* and the stored payload is never modified.                               *)

C10_Memoized ==
    [][ /\ builds' <= 1
        /\ cache # <<>> =>
              /\ cache' = cache
              /\ builds' = builds
              /\ html' = cache
        /\ (cache = <<>> /\ cache' # <<>>) =>
              /\ builds' = builds + 1
              /\ html' = cache'
              /\ cache'[1] \in build_payload(csv[1], geofile) ]_vars

C10_Witness ==
    /\ last = "cached"
    /\ builds = 1
    /\ Built
    /\ html = cache

====
